---- MODULE Spec2Model ----
(***************************************************************************)
(* Discrete-time PID controller with derivative low-pass filter and        *)
(* clamping anti-windup, and the command low-pass pre-filter, as derived   *)
(* and run in content/Control-References/Discrete_Implementation.ipynb.    *)
(*                                                                         *)
(* Arithmetic.  The notebook's quantities are real numbers.  They are      *)
(* modelled as exact rationals <<num, den>> in lowest terms with den > 0,  *)
(* so every equality below is an equality of real numbers; the rounding    *)
(* of IEEE doubles is not part of this model.  The 30000-sample loop of    *)
(* the last code cell, whose exact denominators (5001^n) leave the integer *)
(* range, is modelled by an outward-rounded fixed-point enclosure          *)
(* y_lo <= y[i] <= y_hi of the same recurrence.                            *)
(***************************************************************************)
EXTENDS Integers, Sequences, FiniteSets, TLC

----------------------------------------------------------------------------
(* Exact rational arithmetic *)

Abs(a) == IF a < 0 THEN -a ELSE a

RECURSIVE GCD(_, _)
GCD(a, b) == IF b = 0 THEN a ELSE GCD(b, a % b)

Norm(num, den) ==
    LET s == IF den < 0 THEN -1 ELSE 1
        g == GCD(Abs(num), Abs(den))
    IN  << (s * num) \div g, (s * den) \div g >>

R(a) == << a, 1 >>
Q(a, b) == Norm(a, b)

RAdd(a, b) == Norm(a[1] * b[2] + b[1] * a[2], a[2] * b[2])
RSub(a, b) == Norm(a[1] * b[2] - b[1] * a[2], a[2] * b[2])
RMul(a, b) == Norm(a[1] * b[1], a[2] * b[2])
RDiv(a, b) == Norm(a[1] * b[2], a[2] * b[1])
RNeg(a) == << -a[1], a[2] >>
RAbs(a) == << Abs(a[1]), a[2] >>
RLt(a, b) == a[1] * b[2] < b[1] * a[2]
RLe(a, b) == a[1] * b[2] <= b[1] * a[2]
RIsZero(a) == a[1] = 0

\* sign(): -1, 0 or +1
sign(a) == IF a[1] > 0 THEN 1 ELSE IF a[1] < 0 THEN -1 ELSE 0

RECURSIVE RPow(_, _)
RPow(a, k) == IF k = 0 THEN R(1) ELSE RMul(a, RPow(a, k - 1))

----------------------------------------------------------------------------
(* Bounds of the model *)

\* number of DiscretePID.update calls explored
MaxTicks == 4

\* number of CommandPreFilter.update calls explored
MaxLPTicks == 5

\* resolution of the fixed-point enclosure of the notebook loop: an output
\* value v is enclosed as y_lo/Scale <= v <= y_hi/Scale
Scale == 400000

----------------------------------------------------------------------------
(* DiscretePID: coefficients *)

\* controller configurations: gains kp, ki, kd, derivative pole wp, sample
\* period T, output limit, and the integral seed (0, or a warm-start value)
PIDGains == { << 1, 1, 1 >>, << 1, 2, 0 >>, << 2, 1, 1 >>, << 0, 1, 0 >>,
              << 1, 0, 0 >> }
PIDPoles == { << R(1), R(1) >>, << R(2), R(1) >>, << R(4), R(1) >>,
              << R(1), Q(1, 2) >> }
PIDLimits == { R(1), R(3), R(100) }
PIDSeeds == { R(0), R(2) }

PIDConfigs ==
    { [kp |-> R(g[1]), ki |-> R(g[2]), kd |-> R(g[3]),
       wp |-> p[1], T |-> p[2], output_limit |-> l, seed |-> s] :
        g \in PIDGains, p \in PIDPoles, l \in PIDLimits, s \in PIDSeeds }

\* error samples fed to update
Errors == { R(-2), R(0), R(1), R(3) }

\* slip: the factor 1/2 of the trapezoidal rule left out
k_ei_nohalf(c) == RMul(c.ki, c.T)

\* k_ei = ki*T/2
k_ei(c) == RDiv(RMul(c.ki, c.T), R(2))

\* slip: the pole written with the sign of the z^-1 coefficient
k_md_flipped(c) ==
    RDiv(RSub(RMul(c.T, c.wp), R(2)), RAdd(RMul(c.T, c.wp), R(2)))

\* k_md = (2 - T*wp)/(T*wp + 2)
k_md(c) == RDiv(RSub(R(2), RMul(c.T, c.wp)), RAdd(RMul(c.T, c.wp), R(2)))

\* slip: the factor 2 of the Tustin substitution left out of the numerator
k_ed_nofactor(c) == RDiv(RMul(c.wp, c.kd), RAdd(RMul(c.T, c.wp), R(2)))

\* k_ed = 2*wp*kd/(T*wp + 2)
k_ed(c) == RDiv(RMul(R(2), RMul(c.wp, c.kd)), RAdd(RMul(c.T, c.wp), R(2)))

----------------------------------------------------------------------------
(* DiscretePID: one update *)

\* m_{n,P} = kp*e_n
m_P(c, e) == RMul(c.kp, e)

\* slip: the error difference taken as a sum
m_D_sum(c, mD_prev, e, e_prev) ==
    RAdd(RMul(k_md(c), mD_prev), RMul(k_ed(c), RAdd(e, e_prev)))

\* m_{n,D} = k_md*m_{n-1,D} + k_ed*(e_n - e_{n-1})
m_D(c, mD_prev, e, e_prev) ==
    RAdd(RMul(k_md(c), mD_prev), RMul(k_ed(c), RSub(e, e_prev)))

\* the controller output the clamp decision looks at: the sum of the terms
\* with the integral term as last committed
m_tentative(c, e, mI_prev, mD_n) == RAdd(RAdd(m_P(c, e), mI_prev), mD_n)

\* 1) |m_n| > maximum allowable manipulation
saturating(c, m) == RLt(c.output_limit, RAbs(m))

\* slip: the signs compared by sign bit, zero counted as positive
integral_makes_worse_signbit(e, m) == (e[1] >= 0) = (m[1] >= 0)

\* 2) sign(e_n) == sign(m_n)
integral_makes_worse(e, m) == sign(e) = sign(m)

\* the other convention for a zero: zero is never the same sign as anything,
\* zero included
integral_makes_worse_nonzero(e, m) == sign(e) = sign(m) /\ sign(e) # 0

\* slip: the second criterion dropped, the integrator frozen whenever the
\* output is saturating
clamp_saturating_only(c, e, m) == saturating(c, m)

\* clamp = saturating && integral_makes_worse
clamp(c, e, m) == saturating(c, m) /\ integral_makes_worse(e, m)

\* clamp under the other convention for a zero
clamp_nonzero(c, e, m) ==
    saturating(c, m) /\ integral_makes_worse_nonzero(e, m)

\* slip: the integral expression before the anti-windup modification
m_I_noclamp(c, mI_prev, e, e_prev, cl) ==
    RAdd(mI_prev, RMul(k_ei(c), RAdd(e, e_prev)))

\* slip: rectangular integration, the current sample counted twice
m_I_rect(c, mI_prev, e, e_prev, cl) ==
    RAdd(mI_prev,
         RMul(RMul(k_ei(c), RAdd(e, e)), R(1 - (IF cl THEN 1 ELSE 0))))

\* m_{n,I} = m_{n-1,I} + k_ei*(e_n + e_{n-1})*(1 - clamp)
m_I(c, mI_prev, e, e_prev, cl) ==
    RAdd(mI_prev,
         RMul(RMul(k_ei(c), RAdd(e, e_prev)), R(1 - (IF cl THEN 1 ELSE 0))))

\* variant: the sum hard-saturated to [-output_limit, +output_limit] before it
\* is returned
m_n_saturated(c, e, mI_n, mD_n) ==
    LET m == RAdd(RAdd(m_P(c, e), mI_n), mD_n)
    IN  IF RLt(c.output_limit, m) THEN c.output_limit
        ELSE IF RLt(m, RNeg(c.output_limit)) THEN RNeg(c.output_limit)
        ELSE m

\* m_n = m_{n,P} + m_{n,I} + m_{n,D}
m_n(c, e, mI_n, mD_n) == RAdd(RAdd(m_P(c, e), mI_n), mD_n)

----------------------------------------------------------------------------
(* CommandPreFilter: coefficients and one update *)

\* pre-filter parameters: sample period Ts and time constant tau_n (valid
\* and invalid values), and the steady value v both states are seeded with
LPPeriods == { R(-1), R(0), R(1), R(2), R(3) }
LPTaus == { R(-1), R(0), Q(1, 2), R(1), R(2) }
LPSeeds == { R(0), R(1), R(-2) }
LPConfigs ==
    { [Ts |-> t, tau_n |-> u, v |-> w] :
        t \in LPPeriods, u \in LPTaus, w \in LPSeeds }

\* input samples fed to update
Inputs == { R(0), R(1), R(-2) }

\* the denominator Ts + 2*tau_n of both coefficients
LPDen(c) == RAdd(c.Ts, RMul(R(2), c.tau_n))

\* slip: the numerator written with the sign of the z^-1 coefficient
k_yLP_flipped(c) == RDiv(RSub(c.Ts, RMul(R(2), c.tau_n)), LPDen(c))

\* kmlp = (2*tau_n - Ts)/(Ts + 2*tau_n)
k_yLP(c) == RDiv(RSub(RMul(R(2), c.tau_n), c.Ts), LPDen(c))

\* slip: the factor 2 of the Tustin substitution kept in the numerator
k_xLP_double(c) == RDiv(RMul(R(2), c.Ts), LPDen(c))

\* kelp = Ts/(Ts + 2*tau_n)
k_xLP(c) == RDiv(c.Ts, LPDen(c))

\* slip: the previous input sample left out
y_n_noprev(ky, kx, y_prev, x_n, x_prev) ==
    RAdd(RMul(y_prev, ky), RMul(kx, x_n))

\* slip: a negative pole special-cased, its magnitude used
y_n_abs(ky, kx, y_prev, x_n, x_prev) ==
    RAdd(RMul(y_prev, RAbs(ky)), RMul(kx, RAdd(x_n, x_prev)))

\* y[i] = y[i-1]*kmlp + kelp*(x[i] + x[i-1])
y_n(ky, kx, y_prev, x_n, x_prev) ==
    RAdd(RMul(y_prev, ky), RMul(kx, RAdd(x_n, x_prev)))

----------------------------------------------------------------------------
(* The step-response loop of the notebook's last code cell *)

\* Ts = 1/10_000
TsDen == 10000
Ts == Q(1, TsDen)

\* tau_n = 0.25
tau_n == Q(1, 4)

\* T_settle = 8*tau_n
T_settle == RMul(R(8), tau_n)

\* T_on = 1
T_on == 1

\* int(): truncation of a nonnegative real
int(a) == a[1] \div a[2]

\* total_samples = int((T_on + T_settle)/Ts)
total_samples == int(RDiv(RAdd(R(T_on), T_settle), Ts))

\* samples_off = int(T_on/Ts)
samples_off == int(RDiv(R(T_on), Ts))

LoopConfig == [Ts |-> Ts, tau_n |-> tau_n, v |-> R(0)]

\* x = np.ones(total_samples); x[0:samples_off] = 0
x(k) == IF k < samples_off THEN 0 ELSE 1

\* floor and ceiling of a/b for b > 0
FloorDiv(a, b) == a \div b
CeilDiv(a, b) == -((-a) \div b)

\* y[i-1]*kmlp + kelp*(x[i] + x[i-1]) on the enclosure, rounded outwards:
\* the lower end from the lower end (rounded down), the upper end from the
\* upper end (rounded up); kmlp >= 0 keeps the order.  (y_lo_next_noprev is
\* the slip that leaves the previous input sample out.)
y_lo_next_noprev(ky, kx, lo, x_n, x_prev) ==
    FloorDiv(ky[1] * lo, ky[2]) + FloorDiv(kx[1] * Scale * x_n, kx[2])
y_lo_next(ky, kx, lo, x_n, x_prev) ==
    FloorDiv(ky[1] * lo, ky[2]) + FloorDiv(kx[1] * Scale * (x_n + x_prev), kx[2])
y_hi_next(ky, kx, hi, x_n, x_prev) ==
    CeilDiv(ky[1] * hi, ky[2]) + CeilDiv(kx[1] * Scale * (x_n + x_prev), kx[2])

----------------------------------------------------------------------------
(* State *)

\* DiscretePID
VARIABLES cfg, integral_term, deriv_term, prev_error, output, ticks, errs,
          last, ever_sat, phase

\* a second DiscretePID with the same parameters, differing only in the
\* convention for the sign of zero, fed the same errors: its three state
\* fields and its last output
VARIABLES other

\* CommandPreFilter: parameters, construction status, the two coefficients,
\* the two state samples, and a record of the calls made
VARIABLES lp_cfg, lp_status, kmlp, kelp, prev_input, prev_output, lp_ticks,
          xs, lp_last

\* the notebook loop: the index i about to be processed and the enclosure of
\* y[i-1]
VARIABLES i, y_lo, y_hi

pidVars == << cfg, integral_term, deriv_term, prev_error, output, ticks,
              errs, last, ever_sat, phase, other >>

lpVars == << lp_cfg, lp_status, kmlp, kelp, prev_input, prev_output,
             lp_ticks, xs, lp_last >>

loopVars == << i, y_lo, y_hi >>

vars == << pidVars, lpVars, loopVars >>

\* the state fields and the last output of a controller, as one value
Controller(mI, mD, pe, m) ==
    [integral_term |-> mI, deriv_term |-> mD, prev_error |-> pe,
     output |-> m]

\* a component no instance of which exists in the run at hand
PIDIdle ==
    /\ cfg = << >>
    /\ integral_term = R(0)
    /\ deriv_term = R(0)
    /\ prev_error = R(0)
    /\ output = R(0)
    /\ ticks = 0
    /\ errs = << >>
    /\ last = [tick |-> 0]
    /\ ever_sat = FALSE
    /\ phase = 0
    /\ other = Controller(R(0), R(0), R(0), R(0))

LPIdle ==
    /\ lp_cfg = << >>
    /\ lp_status = "none"
    /\ kmlp = R(0)
    /\ kelp = R(0)
    /\ prev_input = R(0)
    /\ prev_output = R(0)
    /\ lp_ticks = 0
    /\ xs = << >>
    /\ lp_last = [tick |-> 0]
    /\ i = 0
    /\ y_lo = 0
    /\ y_hi = 0

----------------------------------------------------------------------------
(* DiscretePID: behaviour *)

NoTick == [tick |-> 0]

\* state right after construction
PIDInit ==
    /\ cfg \in PIDConfigs
    /\ integral_term = cfg.seed
    /\ deriv_term = R(0)
    /\ prev_error = R(0)
    /\ output = R(0)
    /\ ticks = 0
    /\ errs = << >>
    /\ last = NoTick
    /\ ever_sat = FALSE
    /\ phase = 0
    /\ other = Controller(cfg.seed, R(0), R(0), R(0))

\* one update(e) of the controller with the other convention for a zero
OtherStep(e) ==
    LET mD_n == m_D(cfg, other.deriv_term, e, other.prev_error)
        mt   == m_tentative(cfg, e, other.integral_term, mD_n)
        cl   == clamp_nonzero(cfg, e, mt)
        mI_n == m_I(cfg, other.integral_term, e, other.prev_error, cl)
    IN  other' = Controller(mI_n, mD_n, e, m_n(cfg, e, mI_n, mD_n))

\* the assignments of one update(e).  `last` records the tick that ran (its
\* input and the state it started from) and `ever_sat` whether any tick so
\* far was saturating; neither is read by the controller.
PIDStep(e) ==
    LET mD_n == m_D(cfg, deriv_term, e, prev_error)
        mt   == m_tentative(cfg, e, integral_term, mD_n)
        cl   == clamp(cfg, e, mt)
        mI_n == m_I(cfg, integral_term, e, prev_error, cl)
    IN  /\ integral_term' = mI_n
        /\ deriv_term' = mD_n
        /\ prev_error' = e
        /\ output' = m_n(cfg, e, mI_n, mD_n)
        /\ last' = [tick |-> ticks + 1, e |-> e, pe |-> prev_error,
                    mI |-> integral_term, mD |-> deriv_term]
        /\ ever_sat' = (ever_sat \/ saturating(cfg, mt))
        /\ OtherStep(e)

\* DiscretePID.update(error_n)
Update(e) ==
    /\ ticks < MaxTicks
    /\ PIDStep(e)
    /\ ticks' = ticks + 1
    /\ errs' = Append(errs, e)
    /\ UNCHANGED << cfg, phase, lpVars, loopVars >>

\* update(0) called on and on by the sample timer once the explored ticks
\* are used up.  The run continues only from a state that update(0) maps to
\* itself (previous error and derivative term both zero), which keeps the
\* state space finite; `ticks` stays at its cap, `errs` keeps the inputs of
\* the first MaxTicks ticks, and `phase` alternates so that each call is a
\* step of the behaviour.
Hold ==
    /\ ticks = MaxTicks
    /\ RIsZero(prev_error)
    /\ RIsZero(deriv_term)
    /\ PIDStep(R(0))
    /\ phase' = IF phase = 1 THEN 2 ELSE 1
    /\ UNCHANGED << cfg, ticks, errs, lpVars, loopVars >>

Init == PIDInit /\ LPIdle

Next == \E e \in Errors : Update(e)

Spec == Init /\ [][Next]_vars

\* the controller driven for ever: the external timer calls update on every
\* sample tick
SettleNext == (\E e \in Errors : Update(e)) \/ Hold

\* what a Hold step does to `phase`, under Hold's guard: the steps of
\* SettleNext that change `phase` are exactly the Hold steps, so weak fairness
\* of this action is weak fairness of Hold (the timer keeps ticking)
HoldTurn ==
    /\ ticks = MaxTicks
    /\ RIsZero(prev_error)
    /\ RIsZero(deriv_term)
    /\ phase' = IF phase = 1 THEN 2 ELSE 1

SpecSettle == Init /\ [][SettleNext]_vars /\ WF_phase(HoldTurn)

----------------------------------------------------------------------------
(* CommandPreFilter: behaviour *)

\* parameters chosen, both state samples seeded with the same steady value,
\* coefficients not computed yet
LPInit ==
    /\ lp_cfg \in LPConfigs
    /\ lp_status = "new"
    /\ kmlp = R(0)
    /\ kelp = R(0)
    /\ prev_input = lp_cfg.v
    /\ prev_output = lp_cfg.v
    /\ lp_ticks = 0
    /\ xs = << >>
    /\ lp_last = [tick |-> 0]
    /\ i = 0
    /\ y_lo = 0
    /\ y_hi = 0

\* the coefficient computation: the two divisions, which raise
\* ZeroDivisionError on a zero denominator and check nothing else
LPConstruct ==
    /\ lp_status = "new"
    /\ IF RIsZero(LPDen(lp_cfg))
          THEN /\ lp_status' = "ZeroDivisionError"
               /\ UNCHANGED << kmlp, kelp >>
          ELSE /\ lp_status' = "ready"
               /\ kmlp' = k_yLP(lp_cfg)
               /\ kelp' = k_xLP(lp_cfg)
    /\ UNCHANGED << lp_cfg, prev_input, prev_output, lp_ticks, xs, lp_last,
                    loopVars, pidVars >>

\* CommandPreFilter.update(x_n): one pass of the loop body
LPUpdate(x_n) ==
    /\ lp_status = "ready"
    /\ lp_ticks < MaxLPTicks
    /\ prev_output' = y_n(kmlp, kelp, prev_output, x_n, prev_input)
    /\ prev_input' = x_n
    /\ lp_ticks' = lp_ticks + 1
    /\ xs' = Append(xs, x_n)
    /\ lp_last' = [tick |-> lp_ticks + 1, x |-> x_n, px |-> prev_input,
                   py |-> prev_output]
    /\ UNCHANGED << lp_cfg, lp_status, kmlp, kelp, loopVars, pidVars >>

\* the notebook cell up to the loop: its literal parameters, the two
\* coefficients computed, y = zeros
LoopInit ==
    /\ lp_cfg = LoopConfig
    /\ lp_status = "loop"
    /\ kmlp = k_yLP(LoopConfig)
    /\ kelp = k_xLP(LoopConfig)
    /\ prev_input = R(0)
    /\ prev_output = R(0)
    /\ lp_ticks = 0
    /\ xs = << >>
    /\ lp_last = [tick |-> 0]
    /\ i = 0
    /\ y_lo = 0
    /\ y_hi = 0

\* for i, val in enumerate(x): if i == 0: pass
LoopFirst ==
    /\ lp_status = "loop"
    /\ i = 0
    /\ i < total_samples
    /\ i' = i + 1
    /\ UNCHANGED << y_lo, y_hi, lpVars, pidVars >>

\* else: y[i] = y[i-1]*kmlp + kelp*(x[i] + x[i-1])
LoopBody ==
    /\ lp_status = "loop"
    /\ i > 0
    /\ i < total_samples
    /\ y_lo' = y_lo_next(kmlp, kelp, y_lo, x(i), x(i - 1))
    /\ y_hi' = y_hi_next(kmlp, kelp, y_hi, x(i), x(i - 1))
    /\ i' = i + 1
    /\ UNCHANGED << lpVars, pidVars >>

LPNext == LPConstruct \/ (\E x_n \in Inputs : LPUpdate(x_n)) \/ LoopFirst
              \/ LoopBody

\* either a pre-filter with parameters from LPConfigs, or the notebook loop
InitLP == PIDIdle /\ (LPInit \/ LoopInit)

SpecLP == InitLP /\ [][LPNext]_vars

----------------------------------------------------------------------------
(* Properties of DiscretePID *)

Ticked == last.tick > 0

\* the last tick's derivative term, tentative output and clamp decision,
\* recomputed from the state the tick started from
LastTentative ==
    m_tentative(cfg, last.e, last.mI, m_D(cfg, last.mD, last.e, last.pe))
LastSaturating == RLt(cfg.output_limit, RAbs(LastTentative))
LastWorse == sign(last.e) = sign(LastTentative)

\* the error passed to the update before the last one (0 before the first)
ErrBeforeLast == IF Len(errs) >= 2 THEN errs[Len(errs) - 1] ELSE R(0)

\* ki*T/2 and (2 - T*wp)/(T*wp + 2), written out
HalfKiT == RDiv(RMul(cfg.ki, cfg.T), R(2))
DerivPole ==
    RDiv(RSub(R(2), RMul(cfg.T, cfg.wp)), RAdd(RMul(cfg.T, cfg.wp), R(2)))

\* C1: on every tick that is saturating (|m_tentative| > output_limit) with
\* sign(e_n) = sign(m_tentative), the integral term is left exactly as it was.
C1_ClampFreezesIntegral ==
    (Ticked /\ LastSaturating /\ LastWorse) => integral_term = last.mI

\* C1 witness: a clamped tick on which the trapezoidal increment was not zero
C1_Witness ==
    /\ Ticked /\ LastSaturating /\ LastWorse
    /\ ~RIsZero(RMul(HalfKiT, RAdd(last.e, last.pe)))
    /\ integral_term = last.mI

\* C2: on every tick where clamp is false (not saturating, or saturating with
\* sign(e_n) different from sign(m_tentative)), the integral term advances by
\* exactly (ki*T/2)*(e_n + e_{n-1}), e_{n-1} being the error passed to the
\* preceding update (0 before the first).
C2_TrapezoidalAdvance ==
    (Ticked /\ ~(LastSaturating /\ LastWorse)) =>
        integral_term =
            RAdd(last.mI, RMul(HalfKiT, RAdd(errs[Len(errs)], ErrBeforeLast)))

\* C2 witness: a saturating tick whose error drives the output back (the
\* integrator unwinds) and moves the integral term
C2_Witness ==
    /\ Ticked /\ LastSaturating /\ ~LastWorse
    /\ Len(errs) >= 2
    /\ integral_term # last.mI

\* whether every error fed so far is the same nonzero value
ConstantError ==
    /\ Len(errs) >= 1
    /\ ~RIsZero(errs[1])
    /\ \A k \in 1..Len(errs) : errs[k] = errs[1]

\* C3 (as amended): with the same nonzero error e on every tick since
\* construction and no saturating tick, after n updates the integral term is
\* m_I_0 + k_ei*e*(2n - 1): the first tick adds k_ei*(e + 0), each later tick
\* 2*k_ei*e.
C3_RampAfterFirstTick ==
    (ConstantError /\ ~ever_sat) =>
        integral_term =
            RAdd(cfg.seed,
                 RMul(RMul(HalfKiT, errs[1]), R(2 * Len(errs) - 1)))

\* C3 as stated: after n updates the integral term is m_I_0 + 2*k_ei*e*n.
C3_Original ==
    (ConstantError /\ ~ever_sat) =>
        integral_term =
            RAdd(cfg.seed, RMul(RMul(HalfKiT, errs[1]), R(2 * Len(errs))))

\* C3 witness: a full run of one nonzero error with a nonzero integral gain,
\* never saturating
C3_Witness ==
    /\ ConstantError /\ ~ever_sat
    /\ Len(errs) = MaxTicks
    /\ ~RIsZero(cfg.ki)
    /\ integral_term # cfg.seed

\* C5: on any tick whose error equals the previous tick's error, the
\* derivative term is exactly k_md times its previous value, clamped tick or
\* not; |k_md| < 1, so the term decays geometrically.
C5_DerivativeDecay ==
    /\ RLt(RAbs(DerivPole), R(1))
    /\ (Ticked /\ last.e = last.pe) =>
           deriv_term = RMul(DerivPole, last.mD)

\* C5 witness: a clamped tick repeating a nonzero error while the derivative
\* term is not zero
C5_Witness ==
    /\ Ticked /\ last.e = last.pe /\ ~RIsZero(last.e)
    /\ ~RIsZero(last.mD) /\ ~RIsZero(deriv_term)
    /\ LastSaturating /\ LastWorse

\* whether every error fed since construction is zero (Hold feeds zeros)
AllZero == \A k \in 1..Len(errs) : RIsZero(errs[k])

\* C4 (as amended): on every tick whose error and previous error are both
\* zero the integral term keeps its value, the derivative term is multiplied
\* by k_md and the output is m_I + m_D; the three are zero when the integral
\* seed is 0 and the error has been zero on every tick since construction.
C4_ZeroErrorHolds ==
    /\ (Ticked /\ RIsZero(last.e) /\ RIsZero(last.pe)) =>
           /\ integral_term = last.mI
           /\ deriv_term = RMul(DerivPole, last.mD)
           /\ output = RAdd(integral_term, deriv_term)
    /\ (Ticked /\ AllZero /\ RIsZero(cfg.seed)) =>
           /\ RIsZero(integral_term)
           /\ RIsZero(deriv_term)
           /\ RIsZero(output)

\* C4 as stated: if update keeps being called and the error is zero from
\* some tick onward, the integral term, the derivative term and the output
\* eventually settle to zero.
C4_Original ==
    ([]<>(phase = 1) /\ []<>(phase = 2) /\ <>[](RIsZero(prev_error))) =>
        <>[](RIsZero(integral_term) /\ RIsZero(deriv_term) /\ RIsZero(output))

\* C4 witness: zero error held over repeated calls while the integral term,
\* built up from a zero seed, stays where it was
C4_Witness ==
    /\ phase = 2
    /\ RIsZero(cfg.seed)
    /\ RIsZero(last.e) /\ RIsZero(last.pe)
    /\ ~RIsZero(integral_term)
    /\ integral_term = last.mI

\* the sum of the three terms as they stand after the last tick, and that
\* sum limited to [-output_limit, +output_limit]
SumOfUpdatedTerms ==
    RAdd(RAdd(RMul(cfg.kp, last.e), integral_term), deriv_term)
SumLimited ==
    IF RLt(cfg.output_limit, SumOfUpdatedTerms) THEN cfg.output_limit
    ELSE IF RLt(SumOfUpdatedTerms, RNeg(cfg.output_limit))
         THEN RNeg(cfg.output_limit)
    ELSE SumOfUpdatedTerms

\* C11 (as amended): the value returned on tick n is kp*e_n + m_I_n + m_D_n
\* with the integral term and the derivative term as updated on this tick,
\* and it is returned as it is, not limited to [-output_limit,
\* +output_limit]: it differs from the limited sum exactly when its magnitude
\* exceeds output_limit, on clamped ticks and on ticks that are not clamped.
C11_OutputIsPlainSum ==
    Ticked =>
        /\ output = SumOfUpdatedTerms
        /\ (output # SumLimited) <=> RLt(cfg.output_limit, RAbs(output))

\* C11 as stated: the returned value is that sum hard-saturated to
\* [-output_limit, +output_limit], so its magnitude never exceeds
\* output_limit.
C11_Original ==
    Ticked =>
        /\ output = SumLimited
        /\ RLe(RAbs(output), cfg.output_limit)

\* C11 witness: a tick on which the integrator was not frozen and moved, the
\* derivative term is not zero, and the returned sum exceeds output_limit
C11_Witness ==
    /\ Ticked /\ ~(LastSaturating /\ LastWorse)
    /\ integral_term # last.mI
    /\ ~RIsZero(deriv_term)
    /\ output = SumOfUpdatedTerms
    /\ RLt(cfg.output_limit, RAbs(output))

\* whether the last tick's error or its tentative output was exactly zero
LastHasZero == RIsZero(last.e) \/ RIsZero(LastTentative)

DerivGain ==
    RDiv(RMul(R(2), RMul(cfg.wp, cfg.kd)), RAdd(RMul(cfg.T, cfg.wp), R(2)))

\* C14: on an update that starts from prev_error = 0 and deriv_term = 0 (the
\* first one after construction, or any later one that finds both at 0), the
\* derivative term becomes exactly k_ed*e_0, the returned output contains it
\* (output = kp*e_0 + m_I + k_ed*e_0), and prev_error = e_0 afterwards.
C14_FirstCallKick ==
    (Ticked /\ RIsZero(last.pe) /\ RIsZero(last.mD)) =>
        /\ deriv_term = RMul(DerivGain, last.e)
        /\ output =
               RAdd(RAdd(RMul(cfg.kp, last.e), integral_term),
                    RMul(DerivGain, last.e))
        /\ prev_error = last.e

\* C14 witness: the first update after construction, with a nonzero error
\* and a nonzero derivative gain: the kick is there and is part of the output
C14_Witness ==
    /\ last.tick = 1 /\ ~RIsZero(last.e) /\ ~RIsZero(cfg.kd)
    /\ RIsZero(last.pe) /\ RIsZero(last.mD)
    /\ ~RIsZero(deriv_term)
    /\ output # RAdd(RMul(cfg.kp, last.e), integral_term)
    /\ prev_error = last.e

\* C15: a saturating tick never has m_tentative = 0, so the two conventions
\* for the sign of zero (0 has the sign of 0; 0 has the sign of nothing) give
\* the same clamp on every tick, and the two controllers that differ only in
\* the convention, fed the same errors, agree in integral term, derivative
\* term, previous error and output after every tick.
C15_ConventionsAgree ==
    /\ other = Controller(integral_term, deriv_term, prev_error, output)
    /\ Ticked =>
           /\ LastSaturating => ~RIsZero(LastTentative)
           /\ clamp(cfg, last.e, LastTentative) =
                  clamp_nonzero(cfg, last.e, LastTentative)

\* C15 witness: after a saturating tick earlier in the run, a tick on which
\* the two conventions answer the sign question differently (the error and
\* the tentative output both 0) and the integral term moves, with the two
\* controllers in the same state
C15_Witness ==
    /\ Ticked /\ last.tick >= 2 /\ ever_sat
    /\ RIsZero(last.e) /\ RIsZero(LastTentative)
    /\ integral_makes_worse(last.e, LastTentative)
    /\ ~integral_makes_worse_nonzero(last.e, LastTentative)
    /\ integral_term # last.mI
    /\ other = Controller(integral_term, deriv_term, prev_error, output)

----------------------------------------------------------------------------
(* Properties of CommandPreFilter and of the notebook loop *)

LPTicked == lp_last.tick > 0

\* T > 0 and tau > 0
LPValid == RLt(R(0), lp_cfg.Ts) /\ RLt(R(0), lp_cfg.tau_n)

\* whether every input fed so far is the seed value v
AllSeedInputs == \A k \in 1..Len(xs) : xs[k] = lp_cfg.v

\* C6: a pre-filter whose prev_input and prev_output are both seeded with v
\* returns exactly v on every update with input v and keeps both at v, for
\* any number of calls; in the notebook loop y[j] = 0 for every j below
\* samples_off.
C6_SteadyStart ==
    /\ (lp_status = "ready" /\ LPTicked /\ AllSeedInputs) =>
           (prev_output = lp_cfg.v /\ prev_input = lp_cfg.v)
    /\ (lp_status = "loop" /\ i >= 1 /\ i <= samples_off) =>
           (y_lo = 0 /\ y_hi = 0)

\* C6 witness: a nonzero steady value held over the whole run by a filter
\* with a nonzero pole
C6_Witness ==
    /\ lp_status = "ready" /\ LPValid /\ AllSeedInputs
    /\ lp_ticks = MaxLPTicks
    /\ ~RIsZero(lp_cfg.v) /\ ~RIsZero(kmlp)
    /\ prev_output = lp_cfg.v

\* C7: for T > 0 and tau > 0 the computed coefficients satisfy
\* k_yLP + 2*k_xLP = 1 and |k_yLP| < 1, and on every tick whose input x
\* repeats the previous input the distance to x shrinks by the factor k_yLP:
\* y_n - x = k_yLP*(y_{n-1} - x).  Under a constant input the output therefore
\* converges geometrically to x from whatever state the filter is in.
C7_UnityDCGain ==
    (lp_status \in {"ready", "loop"} /\ LPValid) =>
        /\ RAdd(kmlp, RMul(R(2), kelp)) = R(1)
        /\ RLt(RAbs(kmlp), R(1))
        /\ (lp_status = "ready" /\ LPTicked /\ lp_last.x = lp_last.px) =>
               RSub(prev_output, lp_last.x) =
                   RMul(kmlp, RSub(lp_last.py, lp_last.x))

\* C7 witness: a filter away from its seed state, fed the same input twice,
\* whose output moved strictly closer to that input without reaching it
C7_Witness ==
    /\ lp_status = "ready" /\ LPValid /\ LPTicked
    /\ lp_last.x = lp_last.px
    /\ lp_last.py # lp_cfg.v
    /\ prev_output # lp_last.x
    /\ RLt(RAbs(RSub(prev_output, lp_last.x)),
           RAbs(RSub(lp_last.py, lp_last.x)))

\* whether the inputs so far are zeros followed by ones
StepShaped ==
    \A k \in 1..Len(xs) :
        /\ xs[k] \in {R(0), R(1)}
        /\ (k < Len(xs) /\ xs[k] = R(1)) => xs[k + 1] = R(1)

\* C8: with 0 < T < 2*tau, the state seeded at 0 and an input that is 0 up to
\* a step tick and 1 from then on, the output never decreases from one tick
\* to the next and never exceeds 1.
C8_StepNoOvershoot ==
    (/\ lp_status = "ready" /\ LPValid /\ LPTicked
     /\ RLt(lp_cfg.Ts, RMul(R(2), lp_cfg.tau_n))
     /\ RIsZero(lp_cfg.v)
     /\ StepShaped) =>
        (RLe(lp_last.py, prev_output) /\ RLe(prev_output, R(1)))

\* C8 witness: some ticks at 0, the step, and the output still rising
\* strictly below 1 two ticks later
C8_Witness ==
    /\ lp_status = "ready" /\ LPValid
    /\ RLt(lp_cfg.Ts, RMul(R(2), lp_cfg.tau_n))
    /\ RIsZero(lp_cfg.v)
    /\ StepShaped
    /\ Len(xs) >= 4
    /\ xs[1] = R(0) /\ xs[Len(xs) - 2] = R(1)
    /\ RLt(lp_last.py, prev_output) /\ RLt(prev_output, R(1))

\* tau/T update calls: one time constant
TimeConstantTicks == int(RDiv(tau_n, Ts))

\* whether y[samples_off + k] is the sample the enclosure holds
AtTicksAfterStep(k) == lp_status = "loop" /\ i - 1 = samples_off + k

\* whether the enclosed sample lies between a/1000 and b/1000
YBetween(a, b) == 1000 * y_lo >= a * Scale /\ 1000 * y_hi <= b * Scale

\* C9 (as amended): in the notebook's scenario the output one time constant
\* (2500 calls) after the step is 0.632 (1 - e^-1) of the final value, to
\* within 0.01; 0.865 (1 - e^-2) is reached after two time constants.
C9_OneTimeConstant ==
    /\ AtTicksAfterStep(TimeConstantTicks) => YBetween(622, 642)
    /\ AtTicksAfterStep(2 * TimeConstantTicks) => YBetween(855, 875)

\* C9 as stated: one time constant after the step the output is about 0.865
\* (here: within 0.1 of it).
C9_Original == AtTicksAfterStep(TimeConstantTicks) => YBetween(765, 965)

\* C9 witness: the sample one time constant after the step
C9_Witness ==
    /\ AtTicksAfterStep(TimeConstantTicks)
    /\ TimeConstantTicks = 2500
    /\ y_lo > 0 /\ y_lo <= y_hi

\* a valid filter with T > 2*tau, at rest at 0, fed zeros and then ones
Ringing ==
    /\ lp_status = "ready" /\ LPValid
    /\ RLt(RMul(R(2), lp_cfg.tau_n), lp_cfg.Ts)
    /\ RIsZero(lp_cfg.v)
    /\ StepShaped

\* the number of ticks fed since the step, the step tick included
OnesFed == Cardinality({ k \in 1..Len(xs) : xs[k] = R(1) })

\* (2*tau - T)/(T + 2*tau) and T/(T + 2*tau), written out
PolePreFilter ==
    RDiv(RSub(RMul(R(2), lp_cfg.tau_n), lp_cfg.Ts),
         RAdd(lp_cfg.Ts, RMul(R(2), lp_cfg.tau_n)))
GainPreFilter ==
    RDiv(lp_cfg.Ts, RAdd(lp_cfg.Ts, RMul(R(2), lp_cfg.tau_n)))

\* C13: with T > 2*tau > 0, k_yLP is negative; every update applies
\* y_n = k_yLP*y_{n-1} + k_xLP*(x_n + x_{n-1}) as it stands; and for a step
\* from 0 to 1 into a filter at rest at 0 the output is below 1 on the step
\* tick, above 1 on the next (the overshoot), and from then on y_n - 1 changes
\* sign on every tick while its magnitude strictly decreases.
C13_Ringing ==
    Ringing =>
        /\ RLt(kmlp, R(0))
        /\ LPTicked =>
               prev_output =
                   RAdd(RMul(PolePreFilter, lp_last.py),
                        RMul(GainPreFilter, RAdd(lp_last.x, lp_last.px)))
        /\ (OnesFed >= 1 /\ OnesFed % 2 = 1) => RLt(prev_output, R(1))
        /\ (OnesFed >= 1 /\ OnesFed % 2 = 0) => RLt(R(1), prev_output)
        /\ OnesFed >= 2 =>
               sign(RSub(prev_output, R(1))) =
                   -sign(RSub(lp_last.py, R(1)))
        /\ OnesFed >= 1 =>
               RLt(RAbs(RSub(prev_output, R(1))),
                   RAbs(RSub(lp_last.py, R(1))))

\* C13 witness: ticks at 0, the step, and the output above 1 for the second
\* time three ticks after the step, having been below 1 the tick before
C13_Witness ==
    /\ Ringing
    /\ Len(xs) > OnesFed /\ OnesFed = 4
    /\ RLt(R(1), prev_output) /\ RLt(lp_last.py, R(1))
    /\ RLt(RAbs(RSub(prev_output, R(1))), RAbs(RSub(lp_last.py, R(1))))

\* T <= 0, tau <= 0 or a denominator T + 2*tau <= 0
LPInvalid ==
    \/ RLe(lp_cfg.Ts, R(0))
    \/ RLe(lp_cfg.tau_n, R(0))
    \/ RLe(LPDen(lp_cfg), R(0))

\* C10: a pre-filter with T <= 0, tau <= 0 or T + 2*tau <= 0 is rejected at
\* construction: it never becomes usable and no update runs on it.
C10_InvalidConfigurationRejected ==
    (lp_status \in {"new", "ready", "ZeroDivisionError"} /\ LPInvalid) =>
        (lp_status # "ready" /\ lp_ticks = 0)

====
